---- MODULE Spec2Model ----
(***************************************************************************)
(* Model of app/products/calls/actions/calls.ts: the actions module of the *)
(* Calls product.  Every exported async action is a task that runs from    *)
(* one await to the next in one atomic step (JavaScript runs a function    *)
(* to its next await without interleaving); tasks interleave only at       *)
(* their awaits.                                                           *)
(***************************************************************************)
EXTENDS Integers, FiniteSets, Sequences, Bags, TLC

(* ---------------- bounds ---------------- *)
MaxTasks == 2
MaxTime == 3
MaxConns == 2

(* ---------------- program constants ---------------- *)
\* Calls.RefreshConfigMillis, scaled to the model's clock
RefreshConfigMillis == 2

Channels == {"c1", "c2"}
Users == {"u1", "u2"}
Errors == {"e1", "e2"}
NoError == "noerror"
\* the error NetworkManager.getClient throws when it has no client for serverUrl
ClientNotFound == "client not found"
NoChannel == "nochannel"
\* no call in a channel (call?: undefined / calls[channelId] undefined)
NoServerCall == [users |-> {}, creator_id |-> "nobody"]
NoCall == [creatorId |-> "nobody", participants |-> {}]
Absent == "absent"
NoConn == 0
ConnIds == 1..MaxConns
\* an identity that no connection object has
NoObject == [channelId |-> NoChannel, disconnects |-> 0, ready |-> FALSE]
\* Calls.PluginId
PluginId == "com.mattermost.calls"
\* the error strings joinCall returns
PluginNotEnabled == "calls plugin not enabled"
NoMicrophone == "no permissions to microphone, unable to start call"
UnableToConnect == "unable to connect to the voice call"
\* a config without last_retrieved_at
NoTime == -1

\* CallsConfig: a feature flag and the freshness timestamp
\* (last_retrieved_at may be missing: NoTime)
DefaultCallsConfig ==
    [AllowEnableCalls |-> "false", last_retrieved_at |-> 0]

Flags == {"AllowEnableCalls"}
FlagValues == {"true", "false"}

\* the bodies getCallsConfig can answer with: each flag given or omitted
ConfigResponses == [Flags -> FlagValues \cup {Absent}]

VARIABLES
    now,            \* Date.now()
    config,         \* the stored CallsConfig of serverUrl (getCallsConfig / setConfig)
    pluginEnabled,  \* store: setPluginEnabled
    enabled,        \* store: enabled flag per channel (setChannelEnabled / setCalls)
    calls,          \* store: calls per channel, by creator (setCalls)
    task,           \* bag of the invocations suspended at an await
    last,           \* what the latest step did: the invocation that ran and its return
    connection,     \* the module-level current-connection reference
    conns,          \* the connection objects newConnection has returned
    joined,         \* store: channel of the call the user is in (myselfJoinedCall)
    speakerphone,   \* <<InCallManager speakerphone, store speakerphone>>
    alerts,         \* bag of the dialogs Alert.alert has put up
    failedAt        \* history: last_retrieved_at the latest failed loadConfig stored

vars == <<now, config, pluginEnabled, enabled, calls, task, last, connection, conns,
          joined, speakerphone, alerts, failedAt>>

storeVars == <<pluginEnabled, enabled, calls>>
callVars == <<connection, conns, joined, speakerphone>>

\* an invocation: its arguments, the locals it holds across its awaits, and
\* where it is suspended.  root is the exported action it runs for, and
\* detached says that root has already returned to its caller.
NewTask ==
    [op |-> "none", pc |-> "none", root |-> "none", detached |-> FALSE,
     force |-> FALSE, now |-> 0, config |-> DefaultCallsConfig, client |-> FALSE,
     channelId |-> NoChannel, requests |-> 0, logout |-> NoError,
     error |-> NoError, conn |-> NoConn, user |-> "nobody", admin |-> FALSE,
     creator |-> "nobody"]

\* what the latest step reports: a step that ends in a return of an exported
\* action reports the invocation and the value returned; any other step
\* reports nothing (NoEvent)
NoEvent ==
    [ev |-> "none", t |-> NewTask, result |-> "none", error |-> NoError,
     data |-> "none", resp |-> "none"]
Return(t, result, error, data) ==
    [NoEvent EXCEPT !.ev = "return", !.t = t, !.result = result, !.error = error,
                    !.data = data]

One(t) == SetToBag({t})
\* a returned value is taken by the caller before anything else runs
Quiet == last = NoEvent
\* the invocations that can resume
Suspended == IF Quiet THEN BagToSet(task) ELSE {}
\* a new invocation can start
Room == Quiet /\ BagCardinality(task) < MaxTasks

\* config.last_retrieved_at || 0
LastRetrievedAt(c) == IF c.last_retrieved_at = NoTime THEN 0 ELSE c.last_retrieved_at

IsFreshUnlessDisabled(t, c) ==
    (t - LastRetrievedAt(c)) < RefreshConfigMillis /\ c.AllowEnableCalls # "false"

IsFreshInclusive(t, c) == (t - LastRetrievedAt(c)) <= RefreshConfigMillis

\* (now - lastRetrievedAt) < Calls.RefreshConfigMillis
IsFresh(t, c) == (t - LastRetrievedAt(c)) < RefreshConfigMillis

NextConfigWholesale(c, d, t) ==
    [AllowEnableCalls |-> d.AllowEnableCalls, last_retrieved_at |-> t]

\* {...config, ...data, last_retrieved_at: now}
NextConfig(c, d, t) ==
    [AllowEnableCalls |-> IF d.AllowEnableCalls = Absent THEN c.AllowEnableCalls
                          ELSE d.AllowEnableCalls,
     last_retrieved_at |-> t]

ResetConfigUnstamped(t) == DefaultCallsConfig

\* {...DefaultCallsConfig, last_retrieved_at: now}
ResetConfig(t) == [DefaultCallsConfig EXCEPT !.last_retrieved_at = t]

\* the locals of a loadConfig invocation at its start (lines 51-52)
LoadConfigTask(root, detached, force) ==
    [NewTask EXCEPT !.op = "loadConfig", !.root = root, !.detached = detached,
                    !.force = force, !.now = now, !.config = config]
\* loadConfig suspended at client.getCallsConfig()
LoadConfigRequest(t) == [t EXCEPT !.pc = "rest", !.client = TRUE, !.requests = 1]

\* loadConfig(serverUrl, force) is called: it runs to its first await or to
\* an early return
LoadConfig ==
    /\ Room
    /\ \E force \in BOOLEAN :
          LET t == LoadConfigTask("loadConfig", FALSE, force)
          IN IF ~force /\ IsFresh(now, config)
             THEN /\ last' = Return(t, "data", NoError, config)
                  /\ UNCHANGED task
             ELSE \/ /\ last' = Return(t, "error", ClientNotFound, "none")
                     /\ UNCHANGED task           \* NetworkManager.getClient throws
                  \/ /\ task' = task (+) One(LoadConfigRequest(t))
                     /\ last' = NoEvent
    /\ UNCHANGED <<failedAt, alerts, now, config, storeVars, callVars>>

CatchRestWithoutLogout(t, e) == [t EXCEPT !.pc = "logout", !.error = e]

\* the catch block of an awaited REST request up to its await of
\* forceLogoutIfNecessary(serverUrl, error)
CatchRest(t, e) == [t EXCEPT !.pc = "logout", !.error = e, !.logout = e]

\* client.getCallsConfig() rejects: the catch block up to its await
LoadConfigRestFails(t) ==
    /\ t.op = "loadConfig" /\ t.pc = "rest"
    /\ \E e \in Errors :
          /\ task' = (task (-) One(t)) (+) One(CatchRest(t, e))
          /\ last' = NoEvent
    /\ UNCHANGED <<failedAt, alerts, now, config, storeVars, callVars>>

\* forceLogoutIfNecessary has returned: reset the config and return {error}
LoadConfigReset(t) ==
    /\ t.op = "loadConfig" /\ t.pc = "logout"
    /\ config' = ResetConfig(t.now)
    /\ failedAt' = t.now
    /\ task' = task (-) One(t)
    /\ last' = Return(t, "error", t.error, "none")
    /\ UNCHANGED <<alerts, now, storeVars, callVars>>

\* client.getCallsConfig() resolves with data
LoadConfigRestOk(t) ==
    /\ t.op = "loadConfig" /\ t.pc = "rest"
    /\ \E d \in ConfigResponses :
          LET nextConfig == NextConfig(t.config, d, t.now)
          IN /\ config' = nextConfig
             /\ last' = [Return(t, "data", NoError, nextConfig) EXCEPT !.resp = d]
    /\ task' = task (-) One(t)
    /\ UNCHANGED <<failedAt, alerts, now, storeVars, callVars>>

(***************************************************************************)
(* loadCalls                                                               *)
(***************************************************************************)
\* a ServerChannelState as client.getCalls() returns it
ChannelState(ch, en, call) == [channel_id |-> ch, enabled |-> en, call |-> call]
ServerCall(users, creator) == [users |-> users, creator_id |-> creator]
\* the bodies getCalls answers with in the model
CallsResponses ==
    { << >>,
      << ChannelState("c1", "true", NoServerCall) >>,
      << ChannelState("c1", "false", ServerCall({"u1"}, "u1")),
         ChannelState("c2", "true", NoServerCall) >>,
      << ChannelState("c2", "true", ServerCall({}, "u2")) >> }

\* callsResults of lines 111-127: the calls of the response by channel
CallsResults(resp) ==
    [ch \in Channels |->
        IF \E k \in DOMAIN resp : resp[k].channel_id = ch /\ resp[k].call # NoServerCall
        THEN LET k == CHOOSE k \in DOMAIN resp :
                          resp[k].channel_id = ch /\ resp[k].call # NoServerCall
             IN [creatorId |-> resp[k].call.creator_id,
                 participants |-> resp[k].call.users]
        ELSE NoCall]

\* enabledChannels of line 128
EnabledChannels(resp) ==
    [ch \in Channels |->
        IF \E k \in DOMAIN resp : resp[k].channel_id = ch
        THEN LET k == CHOOSE k \in DOMAIN resp : resp[k].channel_id = ch
             IN resp[k].enabled
        ELSE Absent]

LoadCallsTask(root, detached) ==
    [NewTask EXCEPT !.op = "loadCalls", !.root = root, !.detached = detached]
\* loadCalls suspended at client.getCalls()
LoadCallsRequest(t) == [t EXCEPT !.pc = "rest", !.client = TRUE, !.requests = 1]

\* loadCalls(serverUrl, userId) is called
LoadCalls ==
    /\ Room
    /\ LET t == LoadCallsTask("loadCalls", FALSE)
       IN \/ /\ last' = Return(t, "error", ClientNotFound, "none")
             /\ UNCHANGED task           \* NetworkManager.getClient throws
          \/ /\ task' = task (+) One(LoadCallsRequest(t))
             /\ last' = NoEvent
    /\ UNCHANGED <<failedAt, alerts, now, config, storeVars, callVars>>

\* client.getCalls() rejects
LoadCallsRestFails(t) ==
    /\ t.op = "loadCalls" /\ t.pc = "rest"
    /\ \E e \in Errors :
          /\ task' = (task (-) One(t)) (+) One(CatchRest(t, e))
          /\ last' = NoEvent
    /\ UNCHANGED <<failedAt, alerts, now, config, storeVars, callVars>>

\* forceLogoutIfNecessary has returned: return {error}
LoadCallsLogoutDone(t) ==
    /\ t.op = "loadCalls" /\ t.pc = "logout"
    /\ task' = task (-) One(t)
    /\ last' = Return(t, "error", t.error, "none")
    /\ UNCHANGED <<failedAt, alerts, now, config, storeVars, callVars>>

\* client.getCalls() resolves: lines 99-133.  fetchUsersByIds of line 108 runs
\* unawaited and touches none of the state here; its requests are not modelled.
LoadCallsRestOk(t) ==
    /\ t.op = "loadCalls" /\ t.pc = "rest"
    /\ \E resp \in CallsResponses :
          /\ calls' = CallsResults(resp)
          /\ enabled' = EnabledChannels(resp)
          /\ task' = task (-) One(t)
          /\ last' = [Return(t, "data", NoError,
                             [calls |-> CallsResults(resp),
                              enabled |-> EnabledChannels(resp)])
                      EXCEPT !.resp = resp]
    /\ UNCHANGED <<failedAt, alerts, now, config, pluginEnabled, callVars>>

(***************************************************************************)
(* enableChannelCalls, disableChannelCalls                                 *)
(***************************************************************************)
ChannelCallsTask(op, ch) ==
    [NewTask EXCEPT !.op = op, !.root = op, !.channelId = ch]
ChannelCallsRequest(t) == [t EXCEPT !.pc = "rest", !.client = TRUE, !.requests = 1]

ChannelCallsCalledOptimistic(op) ==
    /\ Room
    /\ \E ch \in Channels :
          /\ task' = task (+) One(ChannelCallsRequest(ChannelCallsTask(op, ch)))
          /\ enabled' = [enabled EXCEPT
                            ![ch] = IF op = "enableChannelCalls" THEN "true" ELSE "false"]
    /\ last' = NoEvent
    /\ UNCHANGED <<failedAt, alerts, now, config, pluginEnabled, calls, callVars>>

ChannelCallsCalledUnawaited(op) ==
    /\ Room
    /\ \E ch \in Channels :
          /\ task' = task (+) One([ChannelCallsRequest(ChannelCallsTask(op, ch))
                                     EXCEPT !.detached = TRUE])
          /\ last' = Return(ChannelCallsTask(op, ch), "empty", NoError, "none")
    /\ UNCHANGED <<failedAt, alerts, now, config, storeVars, callVars>>

\* lines 166-175 and 185-194: the call up to the await of the REST request
ChannelCallsCalled(op) ==
    /\ Room
    /\ \E ch \in Channels :
          LET t == ChannelCallsTask(op, ch)
          IN \/ /\ last' = Return(t, "error", ClientNotFound, "none")
                /\ UNCHANGED task           \* NetworkManager.getClient throws
             \/ /\ task' = task (+) One(ChannelCallsRequest(t))
                /\ last' = NoEvent
    /\ UNCHANGED <<failedAt, alerts, now, config, storeVars, callVars>>

\* enableChannelCalls(serverUrl, channelId) is called
EnableChannelCalls == ChannelCallsCalled("enableChannelCalls")

\* disableChannelCalls(serverUrl, channelId) is called
DisableChannelCalls == ChannelCallsCalled("disableChannelCalls")

\* client.enableChannelCalls / client.disableChannelCalls rejects
ChannelCallsRestFails(t) ==
    /\ t.op \in {"enableChannelCalls", "disableChannelCalls"} /\ t.pc = "rest"
    /\ \E e \in Errors :
          /\ task' = (task (-) One(t)) (+) One(CatchRest(t, e))
          /\ last' = NoEvent
    /\ UNCHANGED <<failedAt, alerts, now, config, storeVars, callVars>>

\* forceLogoutIfNecessary has returned: return {error}
ChannelCallsLogoutDone(t) ==
    /\ t.op \in {"enableChannelCalls", "disableChannelCalls"} /\ t.pc = "logout"
    /\ task' = task (-) One(t)
    /\ last' = Return(t, "error", t.error, "none")
    /\ UNCHANGED <<failedAt, alerts, now, config, storeVars, callVars>>

\* client.enableChannelCalls resolves: setChannelEnabled(serverUrl, channelId, true)
EnableChannelCallsRestOk(t) ==
    /\ t.op = "enableChannelCalls" /\ t.pc = "rest"
    /\ enabled' = [enabled EXCEPT ![t.channelId] = "true"]
    /\ task' = task (-) One(t)
    /\ last' = Return(t, "empty", NoError, "none")
    /\ UNCHANGED <<failedAt, alerts, now, config, pluginEnabled, calls, callVars>>

\* client.disableChannelCalls resolves: setChannelEnabled(serverUrl, channelId, false)
DisableChannelCallsRestOk(t) ==
    /\ t.op = "disableChannelCalls" /\ t.pc = "rest"
    /\ enabled' = [enabled EXCEPT ![t.channelId] = "false"]
    /\ task' = task (-) One(t)
    /\ last' = Return(t, "empty", NoError, "none")
    /\ UNCHANGED <<failedAt, alerts, now, config, pluginEnabled, calls, callVars>>

(***************************************************************************)
(* checkIsCallsPluginEnabled, alone or awaited by loadConfigAndCalls and   *)
(* joinCall; loadConfigAndCalls                                            *)
(***************************************************************************)
\* the plugin manifests getPluginsManifests answers with in the model
ManifestResponses == { << >>, <<"other">>, <<PluginId>>, <<"other", PluginId>> }

\* data.findIndex((m) => m.id === Calls.PluginId) !== -1
HasCallsPlugin(m) == \E k \in DOMAIN m : m[k] = PluginId

\* loadConfigAndCalls resumes with res of its plugin check (lines 138-141):
\* loadConfig(serverUrl, true) and loadCalls run to their awaits, nothing
\* awaits them, and loadConfigAndCalls returns
LoadConfigAndCallsResumes(t, others, truthy) ==
    /\ last' = Return(t, "void", NoError, "none")
    /\ IF ~truthy
       THEN task' = others
       ELSE /\ BagCardinality(others) + 2 <= MaxTasks
            /\ \/ task' = others    \* NetworkManager.getClient throws in both
               \/ task' = others
                     (+) One(LoadConfigRequest(LoadConfigTask("loadConfigAndCalls", TRUE, TRUE)))
                     (+) One(LoadCallsRequest(LoadCallsTask("loadConfigAndCalls", TRUE)))

\* joinCall resumes with {data: enabled} of its plugin check (lines 207-212)
JoinCallResumes(t, others, truthy) ==
    IF ~truthy
    THEN /\ task' = others
         /\ last' = Return(t, "error", PluginNotEnabled, "none")
    ELSE /\ task' = others (+) One([t EXCEPT !.pc = "permission"])
         /\ last' = NoEvent

\* checkIsCallsPluginEnabled returns to its caller: a caller of the action,
\* or the code of loadConfigAndCalls or joinCall that awaits it
PluginCheckReturns(t, others, result, e, isEnabled) ==
    IF t.op = "checkIsCallsPluginEnabled"
    THEN /\ task' = others
         /\ last' = Return(t, result, e, IF result = "data" THEN isEnabled ELSE "none")
    ELSE IF t.op = "loadConfigAndCalls"
    THEN LoadConfigAndCallsResumes(t, others, result = "data" /\ isEnabled)
    ELSE JoinCallResumes(t, others, result = "data" /\ isEnabled)

PluginCheckRequest(t) ==
    [t EXCEPT !.pc = "plugin_rest", !.client = TRUE, !.requests = 1]

\* lines 144-154: the plugin check up to the await of getPluginsManifests
PluginCheckCalled(t) ==
    /\ Room
    /\ \/ PluginCheckReturns(t, task, "error", ClientNotFound, FALSE)
                                          \* NetworkManager.getClient throws
       \/ /\ task' = task (+) One(PluginCheckRequest(t))
          /\ last' = NoEvent
    /\ UNCHANGED <<failedAt, alerts, now, config, storeVars, callVars>>

\* checkIsCallsPluginEnabled(serverUrl) is called
CheckIsCallsPluginEnabled ==
    PluginCheckCalled([NewTask EXCEPT !.op = "checkIsCallsPluginEnabled",
                                      !.root = "checkIsCallsPluginEnabled"])

\* loadConfigAndCalls(serverUrl, userId) is called
LoadConfigAndCalls ==
    PluginCheckCalled([NewTask EXCEPT !.op = "loadConfigAndCalls",
                                      !.root = "loadConfigAndCalls"])

\* client.getPluginsManifests() rejects
PluginCheckRestFails(t) ==
    /\ t.pc = "plugin_rest"
    /\ \E e \in Errors :
          /\ task' = (task (-) One(t))
                     (+) One([t EXCEPT !.pc = "plugin_logout", !.error = e, !.logout = e])
          /\ last' = NoEvent
    /\ UNCHANGED <<failedAt, alerts, now, config, storeVars, callVars>>

\* forceLogoutIfNecessary has returned: the plugin check returns {error}
PluginCheckLogoutDone(t) ==
    /\ t.pc = "plugin_logout"
    /\ PluginCheckReturns(t, task (-) One(t), "error", t.error, FALSE)
    /\ UNCHANGED <<failedAt, alerts, now, config, storeVars, callVars>>

\* client.getPluginsManifests() resolves: lines 160-163
PluginCheckRestOk(t) ==
    /\ t.pc = "plugin_rest"
    /\ \E m \in ManifestResponses :
          /\ pluginEnabled' = HasCallsPlugin(m)
          /\ PluginCheckReturns(t, task (-) One(t), "data", NoError, HasCallsPlugin(m))
    /\ UNCHANGED <<failedAt, alerts, now, config, enabled, calls, callVars>>

(***************************************************************************)
(* joinCall, leaveCall, setSpeakerphoneOn                                  *)
(***************************************************************************)
\* a connection object as newConnection returns it: the channel it was made
\* for, how often disconnect() was called on it, whether waitForReady resolved
NewConn(ch) == [channelId |-> ch, disconnects |-> 0, ready |-> FALSE]

\* the lowest identity no connection object has
IsFreeConn(i) ==
    /\ i \in ConnIds /\ conns[i] = NoObject
    /\ \A j \in ConnIds : conns[j] = NoObject => i <= j

\* a connection object is garbage once it is disconnected and neither the
\* module-level reference nor a suspended joinCall holds it
Garbage(i) ==
    /\ conns[i].disconnects > 0
    /\ connection # i
    /\ \A t \in BagToSet(task) : t.conn # i

\* connection.disconnect() on the connection of the module-level reference
Disconnected(c) == [c EXCEPT ![connection].disconnects = @ + 1]

DropConnectionKeepsReference ==
    /\ conns' = (IF connection # NoConn THEN Disconnected(conns) ELSE conns)
    /\ connection' = connection

\* if (connection) { connection.disconnect(); connection = null; }
DropConnection ==
    /\ conns' = (IF connection # NoConn THEN Disconnected(conns) ELSE conns)
    /\ connection' = NoConn

\* joinCall(serverUrl, channelId, intl) is called: it awaits the plugin check
JoinCall ==
    \E ch \in Channels :
        PluginCheckCalled([NewTask EXCEPT !.op = "joinCall", !.root = "joinCall",
                                          !.channelId = ch])

JoinCallPermissionDropsFirst(t) ==
    /\ t.op = "joinCall" /\ t.pc = "permission"
    /\ DropConnection
    /\ speakerphone' = <<FALSE, FALSE>>
    /\ \/ /\ task' = task (-) One(t)
          /\ last' = Return(t, "error", NoMicrophone, "none")
       \/ /\ task' = (task (-) One(t)) (+) One([t EXCEPT !.pc = "newconn"])
          /\ last' = NoEvent
    /\ UNCHANGED <<failedAt, alerts, now, config, storeVars, joined>>

\* hasMicrophonePermission(intl) resolves: lines 213-224, up to the await of
\* newConnection
JoinCallPermission(t) ==
    /\ t.op = "joinCall" /\ t.pc = "permission"
    /\ \/ /\ task' = task (-) One(t)        \* no permission
          /\ last' = Return(t, "error", NoMicrophone, "none")
          /\ UNCHANGED callVars
       \/ /\ DropConnection
          /\ speakerphone' = <<FALSE, FALSE>>      \* setSpeakerphoneOn(false)
          /\ task' = (task (-) One(t)) (+) One([t EXCEPT !.pc = "newconn"])
          /\ last' = NoEvent
          /\ UNCHANGED joined
    /\ UNCHANGED <<failedAt, alerts, now, config, storeVars>>

\* newConnection rejects: the catch block up to its await
JoinCallNewConnectionFails(t) ==
    /\ t.op = "joinCall" /\ t.pc = "newconn"
    /\ \E e \in Errors :
          /\ task' = (task (-) One(t)) (+) One(CatchRest(t, e))
          /\ last' = NoEvent
    /\ UNCHANGED <<failedAt, alerts, now, config, storeVars, callVars>>

\* forceLogoutIfNecessary has returned: return {error}
JoinCallLogoutDone(t) ==
    /\ t.op = "joinCall" /\ t.pc = "logout"
    /\ task' = task (-) One(t)
    /\ last' = Return(t, "error", t.error, "none")
    /\ UNCHANGED <<failedAt, alerts, now, config, storeVars, callVars>>

\* newConnection resolves: the reference takes the new connection and
\* joinCall awaits its waitForReady (lines 224, 231)
JoinCallNewConnectionOk(t) ==
    /\ t.op = "joinCall" /\ t.pc = "newconn"
    /\ \E i \in ConnIds :
          /\ IsFreeConn(i)
          /\ conns' = [conns EXCEPT ![i] = NewConn(t.channelId)]
          /\ connection' = i
          /\ task' = (task (-) One(t)) (+) One([t EXCEPT !.pc = "ready", !.conn = i])
    /\ last' = NoEvent
    /\ UNCHANGED <<failedAt, alerts, now, config, storeVars, joined, speakerphone>>

\* waitForReady resolves (a connection that was disconnected never gets
\* ready): myselfJoinedCall and return {data: channelId}
JoinCallReady(t) ==
    /\ t.op = "joinCall" /\ t.pc = "ready"
    /\ conns[t.conn].disconnects = 0
    /\ conns' = [conns EXCEPT ![t.conn].ready = TRUE]
    /\ joined' = t.channelId
    /\ task' = task (-) One(t)
    /\ last' = Return(t, "data", NoError, t.channelId)
    /\ UNCHANGED <<failedAt, alerts, now, config, storeVars, connection, speakerphone>>

\* waitForReady rejects: the catch block of lines 234-238, which uses the
\* module-level reference; with the reference null, connection.disconnect()
\* throws a TypeError out of joinCall
JoinCallNotReady(t) ==
    /\ t.op = "joinCall" /\ t.pc = "ready"
    /\ IF connection = NoConn
       THEN /\ last' = Return(t, "throw", "TypeError", "none")
            /\ UNCHANGED <<connection, conns>>
       ELSE /\ DropConnection
            /\ last' = Return(t, "error", UnableToConnect, "none")
    /\ task' = task (-) One(t)
    /\ UNCHANGED <<failedAt, alerts, now, config, storeVars, joined, speakerphone>>

\* the invocation record of a leaveCall(), with the connection it found
LeaveCallTask ==
    [NewTask EXCEPT !.op = "leaveCall", !.root = "leaveCall", !.conn = connection]

LeaveCallOnlyWhenConnected ==
    /\ Quiet
    /\ IF connection = NoConn
       THEN UNCHANGED callVars
       ELSE /\ DropConnection
            /\ speakerphone' = <<FALSE, FALSE>>
            /\ joined' = NoChannel
    /\ last' = Return(LeaveCallTask, "void", NoError, "none")
    /\ UNCHANGED <<failedAt, alerts, now, config, storeVars, task>>

\* leaveCall()
LeaveCall ==
    /\ Quiet
    /\ DropConnection
    /\ speakerphone' = <<FALSE, FALSE>>      \* setSpeakerphoneOn(false)
    /\ joined' = NoChannel                   \* myselfLeftCall()
    /\ last' = Return(LeaveCallTask, "void", NoError, "none")
    /\ UNCHANGED <<failedAt, alerts, now, config, storeVars, task>>

\* setSpeakerphoneOn(speakerphoneOn)
SetSpeakerphoneOn ==
    /\ Quiet
    /\ \E on \in BOOLEAN : speakerphone' = <<on, on>>
    /\ last' = Return([NewTask EXCEPT !.op = "setSpeakerphoneOn",
                                      !.root = "setSpeakerphoneOn"],
                      "void", NoError, "none")
    /\ UNCHANGED <<failedAt, alerts, now, config, storeVars, task, connection, conns, joined>>

(***************************************************************************)
(* endCallAlert                                                            *)
(***************************************************************************)
\* a dialog of Alert.alert: kind "permission" (lines 305-313), "confirm"
\* (lines 350-370, with the Cancel and End call buttons) or "error" (line 364),
\* and for a confirm dialog the invocation that put it up
Dialog(kind, t) == [kind |-> kind, t |-> IF kind = "confirm" THEN t ELSE NewTask]

\* endCallAlert(serverUrl, intl, channelId) is called: lines 280-285.  Each
\* invocation puts up at most one dialog, whose button starts at most one
\* endCall, so the invocations and dialogs together are bounded.
EndCallAlert ==
    /\ Room
    /\ BagCardinality(task) + BagCardinality(alerts) < MaxTasks
    /\ \E ch \in Channels :
          LET t == [NewTask EXCEPT !.op = "endCallAlert", !.root = "endCallAlert",
                                   !.channelId = ch]
          IN \/ /\ last' = Return(t, "void", NoError, "none")    \* no database
                /\ UNCHANGED task
             \/ /\ task' = task (+) One([t EXCEPT !.pc = "currentUser"])
                /\ last' = NoEvent
    /\ UNCHANGED <<failedAt, alerts, now, config, storeVars, callVars>>

\* getCurrentUser(database) resolves: lines 286-290
EndCallAlertCurrentUser(t) ==
    /\ t.op = "endCallAlert" /\ t.pc = "currentUser"
    /\ \/ /\ task' = task (-) One(t)                    \* no current user
          /\ last' = Return(t, "void", NoError, "none")
       \/ \E u \in Users, admin \in BOOLEAN :
             /\ task' = (task (-) One(t))
                        (+) One([t EXCEPT !.pc = "channel", !.user = u, !.admin = admin])
             /\ last' = NoEvent
    /\ UNCHANGED <<failedAt, alerts, now, config, storeVars, callVars>>

MayNotEndCallInverted(admin, user, call) == ~admin /\ user = call.creatorId

\* if (!isAdmin && currentUser.id !== call.creatorId)
MayNotEndCall(admin, user, call) == ~admin /\ user # call.creatorId

\* getChannelById(database, channelId) resolves: lines 291-347, up to the
\* awaits that build the message for a direct-message channel
EndCallAlertChannel(t) ==
    /\ t.op = "endCallAlert" /\ t.pc = "channel"
    /\ LET call == calls[t.channelId]
           u == [t EXCEPT !.creator = call.creatorId]
       IN \/ /\ task' = task (-) One(t)                 \* no channel
             /\ last' = Return(t, "void", NoError, "none")
             /\ UNCHANGED alerts
          \/ /\ call = NoCall                           \* no call
             /\ task' = task (-) One(t)
             /\ last' = Return(t, "void", NoError, "none")
             /\ UNCHANGED alerts
          \/ /\ call # NoCall
             /\ MayNotEndCall(t.admin, t.user, call)
             /\ alerts' = alerts (+) One(Dialog("permission", u))
             /\ task' = task (-) One(t)
             /\ last' = Return(u, "void", NoError, "none")
          \/ /\ call # NoCall
             /\ ~MayNotEndCall(t.admin, t.user, call)
             /\ \/ /\ task' = (task (-) One(t))     \* General.DM_CHANNEL
                                (+) One([u EXCEPT !.pc = "displayName"])
                      /\ last' = NoEvent
                      /\ UNCHANGED alerts
                   \/ /\ alerts' = alerts (+) One(Dialog("confirm", u))
                      /\ task' = task (-) One(t)
                      /\ last' = Return(u, "void", NoError, "none")
    /\ UNCHANGED <<failedAt, now, config, storeVars, callVars>>

\* the queries of lines 339-341 resolve: the confirmation dialog goes up
EndCallAlertDisplayName(t) ==
    /\ t.op = "endCallAlert" /\ t.pc = "displayName"
    /\ alerts' = alerts (+) One(Dialog("confirm", t))
    /\ task' = task (-) One(t)
    /\ last' = Return(t, "void", NoError, "none")
    /\ UNCHANGED <<failedAt, now, config, storeVars, callVars>>

\* the user closes a dialog without its End call button: Cancel, or the
\* button of a permission or error alert
DismissAlert(d) ==
    /\ Quiet
    /\ alerts' = alerts (-) One(d)
    /\ last' = NoEvent
    /\ UNCHANGED <<failedAt, now, config, storeVars, callVars, task>>

\* the user presses End call: onPress of lines 359-366 runs endCall (lines
\* 317-329) up to the await of client.endCall
PressEndCall(d) ==
    /\ Quiet
    /\ d.kind = "confirm"
    /\ \/ /\ alerts' = (alerts (-) One(d))    \* NetworkManager.getClient throws
                       (+) One(Dialog("error", d.t))
          /\ UNCHANGED task
       \/ /\ alerts' = alerts (-) One(d)
          /\ task' = task (+) One([d.t EXCEPT !.op = "endCall", !.pc = "rest",
                                              !.detached = TRUE, !.client = TRUE,
                                              !.requests = 1])
    /\ last' = NoEvent
    /\ UNCHANGED <<failedAt, now, config, storeVars, callVars>>

\* client.endCall(channelId) rejects: the catch block of endCall up to its await
EndCallRestFails(t) ==
    /\ t.op = "endCall" /\ t.pc = "rest"
    /\ \E e \in Errors :
          /\ task' = (task (-) One(t)) (+) One(CatchRest(t, e))
          /\ last' = NoEvent
    /\ UNCHANGED <<failedAt, alerts, now, config, storeVars, callVars>>

\* forceLogoutIfNecessary has returned: endCall rethrows and onPress puts up
\* the error alert
EndCallLogoutDone(t) ==
    /\ t.op = "endCall" /\ t.pc = "logout"
    /\ task' = task (-) One(t)
    /\ alerts' = alerts (+) One(Dialog("error", t))
    /\ last' = NoEvent
    /\ UNCHANGED <<failedAt, now, config, storeVars, callVars>>

\* client.endCall(channelId) resolves
EndCallRestOk(t) ==
    /\ t.op = "endCall" /\ t.pc = "rest"
    /\ task' = task (-) One(t)
    /\ last' = NoEvent
    /\ UNCHANGED <<failedAt, alerts, now, config, storeVars, callVars>>

\* the clock advances
Tick ==
    /\ Quiet
    /\ now < MaxTime
    /\ now' = now + 1
    /\ last' = NoEvent
    /\ UNCHANGED <<failedAt, alerts, config, storeVars, callVars, task>>

\* the caller of an exported action receives the value it returned;
\* connection objects nothing holds any more are collected
Returned ==
    /\ ~Quiet
    /\ last' = NoEvent
    /\ conns' = [i \in ConnIds |-> IF Garbage(i) THEN NoObject ELSE conns[i]]
    /\ UNCHANGED <<failedAt, alerts, now, config, storeVars, task, connection, joined, speakerphone>>

\* the state after the module is loaded, over a stored config
InitOver(stored) ==
    /\ now = 0
    /\ config = stored
    /\ pluginEnabled = FALSE
    /\ enabled = [c \in Channels |-> Absent]
    /\ calls = [c \in Channels |-> NoCall]
    /\ task = EmptyBag
    /\ last = NoEvent
    /\ connection = NoConn
    /\ conns = [i \in ConnIds |-> NoObject]
    /\ joined = NoChannel
    /\ speakerphone = <<FALSE, FALSE>>
    /\ alerts = EmptyBag
    /\ failedAt = NoTime

\* nothing fetched yet: getCallsConfig gives DefaultCallsConfig
Init == InitOver(DefaultCallsConfig)

\* the same, or a stored config that has no last_retrieved_at (line 55)
InitStored ==
    \E c \in {DefaultCallsConfig, [DefaultCallsConfig EXCEPT !.last_retrieved_at = NoTime]} :
        InitOver(c)

NextStoreOps ==
    \/ Returned
    \/ LoadConfig
    \/ \E t \in Suspended : LoadConfigRestFails(t)
    \/ \E t \in Suspended : LoadConfigReset(t)
    \/ \E t \in Suspended : LoadConfigRestOk(t)
    \/ LoadCalls
    \/ \E t \in Suspended : LoadCallsRestFails(t)
    \/ \E t \in Suspended : LoadCallsLogoutDone(t)
    \/ \E t \in Suspended : LoadCallsRestOk(t)
    \/ EnableChannelCalls
    \/ DisableChannelCalls
    \/ \E t \in Suspended : ChannelCallsRestFails(t)
    \/ \E t \in Suspended : ChannelCallsLogoutDone(t)
    \/ \E t \in Suspended : EnableChannelCallsRestOk(t)
    \/ \E t \in Suspended : DisableChannelCallsRestOk(t)
    \/ CheckIsCallsPluginEnabled
    \/ LoadConfigAndCalls
    \/ \E t \in Suspended : PluginCheckRestFails(t)
    \/ \E t \in Suspended : PluginCheckLogoutDone(t)
    \/ \E t \in Suspended : PluginCheckRestOk(t)

SpecStore == Init /\ [][NextStoreOps]_vars

NextCallOps ==
    \/ Returned
    \/ JoinCall
    \/ \E t \in Suspended : PluginCheckRestFails(t)
    \/ \E t \in Suspended : PluginCheckLogoutDone(t)
    \/ \E t \in Suspended : PluginCheckRestOk(t)
    \/ \E t \in Suspended : JoinCallPermission(t)
    \/ \E t \in Suspended : JoinCallNewConnectionFails(t)
    \/ \E t \in Suspended : JoinCallLogoutDone(t)
    \/ \E t \in Suspended : JoinCallNewConnectionOk(t)
    \/ \E t \in Suspended : JoinCallReady(t)
    \/ \E t \in Suspended : JoinCallNotReady(t)
    \/ LeaveCall
    \/ SetSpeakerphoneOn

SpecCall == Init /\ [][NextCallOps]_vars

NextAlertOps ==
    \/ Returned
    \/ LoadCalls
    \/ \E t \in Suspended : LoadCallsRestOk(t)
    \/ EndCallAlert
    \/ \E t \in Suspended : EndCallAlertCurrentUser(t)
    \/ \E t \in Suspended : EndCallAlertChannel(t)
    \/ \E t \in Suspended : EndCallAlertDisplayName(t)
    \/ \E d \in BagToSet(alerts) : DismissAlert(d)
    \/ \E d \in BagToSet(alerts) : PressEndCall(d)
    \/ \E t \in Suspended : EndCallRestFails(t)
    \/ \E t \in Suspended : EndCallLogoutDone(t)
    \/ \E t \in Suspended : EndCallRestOk(t)

SpecAlert == Init /\ [][NextAlertOps]_vars

NextConfigOps ==
    \/ Returned
    \/ Tick
    \/ LoadConfig
    \/ \E t \in Suspended : LoadConfigRestFails(t)
    \/ \E t \in Suspended : LoadConfigReset(t)
    \/ \E t \in Suspended : LoadConfigRestOk(t)

SpecConfig == InitStored /\ [][NextConfigOps]_vars

(***************************************************************************)
(* Properties of loadConfig                                                *)
(***************************************************************************)
\* the latest step was the return of a loadConfig invocation
LoadConfigRan == last.ev = "return" /\ last.t.op = "loadConfig"
\* age of the stored config the invocation read at its start
AgeAtStart(t) ==
    t.now - (IF t.config.last_retrieved_at = NoTime THEN 0 ELSE t.config.last_retrieved_at)
PastGate(t) == t.force \/ ~(AgeAtStart(t) < RefreshConfigMillis)

\* C1: a non-forced loadConfig that finds the stored config younger than
\* Calls.RefreshConfigMillis (missing last_retrieved_at counting as 0) returns
\* {data: stored config}, issues no getCallsConfig request and leaves the
\* stored config alone; a forced one, or one that finds the config older, with
\* a client available issues exactly one getCallsConfig request.
C1_RefreshGate ==
    /\ (LoadConfigRan /\ ~PastGate(last.t)) =>
          /\ last.result = "data"
          /\ last.data = last.t.config
          /\ last.t.requests = 0
          /\ config = last.t.config
    /\ (LoadConfigRan /\ PastGate(last.t)) =>
          /\ last.t.requests = (IF last.t.client THEN 1 ELSE 0)
          /\ (~last.t.client => last.result = "error")
    /\ \A t \in BagToSet(task) : t.op = "loadConfig" =>
          PastGate(t) /\ t.client /\ t.requests = 1

\* a non-forced loadConfig has just been answered from a config fetched earlier
C1_Witness ==
    /\ LoadConfigRan /\ ~last.t.force
    /\ last.t.config.last_retrieved_at > 0
    /\ last.result = "data" /\ last.t.requests = 0

\* the latest step was the return of a loadConfig whose request had failed
LoadConfigFailed ==
    /\ LoadConfigRan
    /\ last.t.requests = 1 /\ last.t.logout # NoError

\* C4: when the getCallsConfig request of a loadConfig fails, the stored
\* config becomes DefaultCallsConfig with last_retrieved_at set to the time
\* at which that invocation started, whatever was stored before, and the
\* invocation returns {error}.
C4_DisableOnError ==
    LoadConfigFailed =>
        /\ config = [DefaultCallsConfig EXCEPT !.last_retrieved_at = last.t.now]
        /\ last.result = "error"

\* a loadConfig that started at time 1 or later over a config with calls on
\* has failed after the clock moved on
C4_Witness ==
    /\ LoadConfigFailed
    /\ last.t.now > 0 /\ now > last.t.now
    /\ last.t.config.AllowEnableCalls = "true"

\* the latest step was the return of a loadConfig whose request succeeded
LoadConfigFetched ==
    /\ LoadConfigRan
    /\ last.t.requests = 1 /\ last.result = "data"

\* C5 as stated: after a successful fetch every feature flag of the stored
\* config has the value of the server response, or none when the response
\* omits it; no value of the previously stored config survives.
C5_AsStated ==
    LoadConfigFetched =>
        /\ config.AllowEnableCalls = last.resp.AllowEnableCalls
        /\ config.last_retrieved_at = last.t.now

\* C5: after a successful fetch every feature flag the response gives has the
\* response's value, a flag the response omits keeps the value the stored
\* config had when the invocation started, last_retrieved_at is the time the
\* invocation started, and the invocation returns the config it stored.
C5_MergedOverStartConfig ==
    LoadConfigFetched =>
        /\ config.AllowEnableCalls =
              (IF last.resp.AllowEnableCalls # Absent THEN last.resp.AllowEnableCalls
               ELSE last.t.config.AllowEnableCalls)
        /\ config.last_retrieved_at = last.t.now
        /\ last.data = config

\* a fetch whose response omits the flag has completed over a config with calls on
C5_Witness ==
    /\ LoadConfigFetched
    /\ last.resp.AllowEnableCalls = Absent
    /\ last.t.config.AllowEnableCalls = "true"

(***************************************************************************)
(* Properties of the REST actions                                          *)
(***************************************************************************)
RestActions ==
    {"loadConfig", "loadCalls", "checkIsCallsPluginEnabled", "enableChannelCalls",
     "disableChannelCalls"}

\* C3: when the REST request of loadConfig, loadCalls,
\* checkIsCallsPluginEnabled, enableChannelCalls or disableChannelCalls fails,
\* forceLogoutIfNecessary is invoked with that error before the action
\* completes, and the action returns {error} with that same error: it does
\* not throw and returns no data.
C3_RestErrorsSurface ==
    /\ \A t \in BagToSet(task) :
          (t.op \in RestActions /\ t.error # NoError) => t.logout = t.error
    /\ (last.ev = "return" /\ last.t.op \in RestActions /\ last.t.error # NoError) =>
          /\ last.t.logout = last.t.error
          /\ last.result = "error"
          /\ last.error = last.t.error
          /\ last.data = "none"

\* a plugin check whose request failed with e2 has returned
C3_Witness ==
    /\ last.ev = "return" /\ last.t.op = "checkIsCallsPluginEnabled"
    /\ last.t.requests = 1 /\ last.t.error = "e2"
    /\ last.result = "error" /\ last.error = "e2"

ChannelActions == {"enableChannelCalls", "disableChannelCalls"}
ChannelFlag(op) == IF op = "enableChannelCalls" THEN "true" ELSE "false"

\* what C6 says of one step
C6_Step ==
    /\ (last'.ev = "return" /\ last'.t.op \in ChannelActions) =>
          IF last'.result = "empty"
          THEN /\ last'.t.requests = 1 /\ last'.t.error = NoError
               /\ enabled' = [enabled EXCEPT
                                 ![last'.t.channelId] = ChannelFlag(last'.t.op)]
          ELSE /\ last'.result = "error"
               /\ enabled' = enabled
    /\ enabled' # enabled =>
          /\ last'.ev = "return"
          /\ last'.t.op \in ChannelActions \cup {"loadCalls"}

\* C6: enableChannelCalls sets the local enabled flag of its channel to true
\* and disableChannelCalls sets it to false only in the step in which the
\* REST request has succeeded; when the client cannot be obtained or the
\* request fails, no step of the invocation changes the enabled flag of any
\* channel and {error} is returned.
C6_ToggleAfterSuccess == [][C6_Step]_vars

\* a disableChannelCalls whose request failed has returned, and the channel,
\* enabled before, still is
C6_Witness ==
    /\ last.ev = "return" /\ last.t.op = "disableChannelCalls"
    /\ last.t.requests = 1 /\ last.result = "error"
    /\ enabled[last.t.channelId] = "true"

MayEnd(t) == t.admin \/ t.user = t.creator
Added(x, before, after) == CopiesIn(x, after) > CopiesIn(x, before)
Removed(x, before, after) == CopiesIn(x, after) < CopiesIn(x, before)

\* what C7 says of one step
C7_Step ==
    /\ \A t \in BagToSet(task') :
          (t.op = "endCall" /\ t.pc = "rest" /\ Added(t, task, task')) =>
             /\ MayEnd(t)
             /\ \E d \in BagToSet(alerts) :
                   /\ d.kind = "confirm" /\ Removed(d, alerts, alerts')
                   /\ d.t.channelId = t.channelId /\ d.t.user = t.user
    /\ \A d \in BagToSet(alerts') :
          (d.kind = "confirm" /\ Added(d, alerts, alerts')) => MayEnd(d.t)
    /\ (last'.ev = "return" /\ last'.t.op = "endCallAlert") =>
          /\ \A t \in BagToSet(task') : ~Added(t, task, task')
          /\ (last'.t.creator # "nobody" /\ ~MayEnd(last'.t)) =>
                /\ Added(Dialog("permission", last'.t), alerts, alerts')
                /\ \A d \in BagToSet(alerts') :
                      d.kind = "confirm" => ~Added(d, alerts, alerts')
          /\ last'.t.creator = "nobody" => alerts' = alerts

\* C7: the endCall REST request is issued only for a user who is a system
\* admin or the creator of the call in the channel, and only in the step in
\* which the End call button of the confirmation dialog is pressed; an
\* endCallAlert of a user who is neither puts up the permission alert and no
\* confirmation dialog, and an endCallAlert that finds no database, current
\* user, channel or call puts up nothing; no return of endCallAlert and no
\* Cancel issues a request.
C7_EndCallNeedsConfirm == [][C7_Step]_vars

\* the endCall request of a call's creator who is no admin is outstanding
C7_Witness ==
    \E t \in BagToSet(task) :
        t.op = "endCall" /\ t.pc = "rest" /\ ~t.admin /\ t.user = t.creator

(***************************************************************************)
(* Properties of joinCall and leaveCall                                    *)
(***************************************************************************)
\* C2: the module-level connection reference is null or refers to a
\* connection on which disconnect() has not been called.
C2_ReferenceNotDisconnected ==
    connection # NoConn =>
        conns[connection] # NoObject /\ conns[connection].disconnects = 0

\* the reference holds a connection while another that was disconnected is
\* still awaited by a joinCall
C2_Witness ==
    /\ connection # NoConn
    /\ \E i \in ConnIds : i # connection /\ conns[i].disconnects = 1

\* C9: if the store records that the user is in a call, the module-level
\* reference is non-null and refers to a connection for the recorded channel
\* whose waitForReady has succeeded.
C9_StoreMatchesConnection ==
    joined # NoChannel =>
        /\ connection # NoConn
        /\ conns[connection].channelId = joined
        /\ conns[connection].ready

\* C10: at most one connection returned by newConnection has not had
\* disconnect() called on it, and it is the one the module-level reference
\* holds.
C10_AtMostOneLiveConnection ==
    \A i \in ConnIds :
        (conns[i] # NoObject /\ conns[i].disconnects = 0) => connection = i

(***************************************************************************)
(* Properties of the failure path of joinCall                              *)
(***************************************************************************)
\* the latest step was the return of a joinCall whose waitForReady rejected
JoinCallNotReadyRan ==
    /\ last.ev = "return" /\ last.t.op = "joinCall"
    /\ last.t.pc = "ready" /\ last.result # "data"

\* C11: when waitForReady rejects on the connection a joinCall invocation
\* created, that same connection has had disconnect() called on it and the
\* invocation returns {error: 'unable to connect to the voice call'} without
\* throwing, also when leaveCall or another joinCall ran while it waited.
C11_FailurePath ==
    JoinCallNotReadyRan =>
        /\ last.result = "error"
        /\ last.error = UnableToConnect
        /\ conns[last.t.conn].disconnects > 0

(***************************************************************************)
(* Properties of leaveCall                                                 *)
(***************************************************************************)
\* the step is a call of leaveCall()
LeaveCallStep == last'.ev = "return" /\ last'.t.op = "leaveCall"

\* C12: after leaveCall returns the module-level reference is null, the
\* speakerphone is off in InCallManager and in the store, and the store has
\* no joined call, whether or not a connection was held; the connection that
\* was held has had disconnect() called exactly once, no other connection is
\* touched, and none when no connection was held; a leaveCall in the state
\* a leaveCall leaves changes nothing.
C12_Step ==
    LeaveCallStep =>
        /\ connection' = NoConn
        /\ speakerphone' = <<FALSE, FALSE>>
        /\ joined' = NoChannel
        /\ \A i \in ConnIds :
              conns'[i] = (IF connection = i THEN [conns[i] EXCEPT !.disconnects = 1]
                           ELSE conns[i])
        /\ (connection = NoConn /\ speakerphone = <<FALSE, FALSE>> /\ joined = NoChannel)
              => UNCHANGED callVars
C12_LeaveCallResets == [][C12_Step]_vars

\* leaveCall has just left a call whose connection was ready
C12_Witness ==
    /\ last.ev = "return" /\ last.t.op = "leaveCall"
    /\ last.t.conn # NoConn
    /\ conns[last.t.conn].ready /\ conns[last.t.conn].disconnects = 1
    /\ connection = NoConn /\ joined = NoChannel

(***************************************************************************)
(* Properties of loadConfig after a failed fetch                           *)
(***************************************************************************)
\* the config the latest failed loadConfig stored
FailedConfig == [DefaultCallsConfig EXCEPT !.last_retrieved_at = failedAt]

\* C13 as stated: after a loadConfig whose request failed, every non-forced
\* loadConfig that starts less than Calls.RefreshConfigMillis after the
\* timestamp of the failure returns {data: DefaultCallsConfig with that
\* timestamp}, not {error}, and issues no getCallsConfig request.
C13_AsStated ==
    (/\ LoadConfigRan /\ last.t.pc = "none" /\ ~last.t.force
     /\ failedAt # NoTime
     /\ last.t.now - failedAt < RefreshConfigMillis) =>
        /\ last.result = "data"
        /\ last.data = FailedConfig
        /\ last.t.requests = 0

\* C13: a loadConfig whose request failed stores DefaultCallsConfig stamped
\* with the time it started; a non-forced loadConfig that finds that config
\* still stored and starts less than Calls.RefreshConfigMillis after that
\* timestamp returns {data: that config}, not {error}, and issues no
\* getCallsConfig request; over that config only a forced loadConfig, or one
\* that starts once the threshold has elapsed, issues a request.
C13_FailureCached ==
    /\ LoadConfigFailed => (failedAt = last.t.now /\ config = FailedConfig)
    /\ (/\ LoadConfigRan /\ ~last.t.force
        /\ failedAt # NoTime /\ last.t.config = FailedConfig
        /\ last.t.now - failedAt < RefreshConfigMillis) =>
           /\ last.result = "data"
           /\ last.data = FailedConfig
           /\ last.t.requests = 0
    /\ \A t \in BagToSet(task) :
          (/\ t.op = "loadConfig" /\ ~t.force
           /\ failedAt # NoTime /\ t.config = FailedConfig) =>
              t.now - failedAt >= RefreshConfigMillis

\* a fetch that started at time 1 or later has failed, and a non-forced
\* loadConfig that started later has been answered from the config it stored
C13_Witness ==
    /\ LoadConfigRan /\ ~last.t.force
    /\ failedAt > 0 /\ last.t.config = FailedConfig
    /\ last.t.now > failedAt
    /\ last.result = "data" /\ last.t.requests = 0

(***************************************************************************)
(* Properties of the preconditions of joinCall                             *)
(***************************************************************************)
\* joinCall has returned because the plugin check did not report the plugin
\* as enabled or because microphone permission was denied
JoinCallRefused ==
    /\ last.ev = "return" /\ last.t.op = "joinCall"
    /\ last.error \in {PluginNotEnabled, NoMicrophone}

\* the step is one of a joinCall invocation up to its precondition checks:
\* it returns refused, or it suspends at the plugin check or at
\* hasMicrophonePermission
JoinCallPreconditionStep ==
    \/ JoinCallRefused'
    \/ \E t \in BagToSet(task') :
          /\ t.op = "joinCall"
          /\ t.pc \in {"plugin_rest", "plugin_logout", "permission"}
          /\ CopiesIn(t, task') > CopiesIn(t, task)

\* C14: a joinCall that fails a precondition (the plugin check does not
\* report the Calls plugin as enabled, also when the check itself errors, or
\* microphone permission is denied) returns {error}; no step of it up to that
\* return calls disconnect(), changes the module-level reference, the
\* speakerphone state or the joined-call state, or calls newConnection.
C14_Step ==
    /\ JoinCallPreconditionStep => UNCHANGED callVars
    /\ JoinCallRefused' =>
          /\ last'.result = "error"
          /\ last'.t.conn = NoConn
          /\ last'.t.pc \in {"none", "plugin_rest", "plugin_logout", "permission"}
C14_RefusedJoinLeavesCall == [][C14_Step]_vars

\* a joinCall whose plugin check errored has been refused while the user is
\* in a call with the speakerphone on
C14_Witness ==
    /\ JoinCallRefused
    /\ last.error = PluginNotEnabled /\ last.t.logout # NoError
    /\ connection # NoConn /\ conns[connection].ready
    /\ joined # NoChannel
    /\ speakerphone = <<TRUE, TRUE>>
====
